---- MODULE Spec2Model ----
(***************************************************************************)
(* inkpy_jinja.converter: the Converter pipeline (unzip the odt, render    *)
(* content.xml and styles.xml with jinja, zip the directory again, hand    *)
(* the archive to the backend, remove the temporary data) over a model of  *)
(* the filesystem.                                                         *)
(*                                                                         *)
(* A Python str is a sequence of one-character strings, so that slicing,   *)
(* split, replace and format are computed character by character.  None   *)
(* and the empty str are both the empty sequence (the code only tests      *)
(* them with "not").                                                       *)
(***************************************************************************)
EXTENDS Naturals, Sequences, FiniteSets, TLC

VARIABLES
    settings,   \* the module-level dict "settings": key -> str
    dirs,       \* filesystem: the paths that are directories
    files,      \* filesystem: path -> content of a regular file that is no zip
    zips,       \* filesystem: path -> archive (member name -> content)
    conv,       \* the Converter objects, by slot
    pc,         \* per slot: "none", "ready", the step convert() runs next, "done", "raised"
    steps,      \* per slot: the steps the current convert() has invoked, in order
    handed,     \* per slot: what the backend's render() was invoked with and found
    runs,       \* the number of calls (convert(), or a method called directly) made so far
    lastOp      \* the most recent call: its name, slot, arguments, exception, filesystem accesses

vars == <<settings, dirs, files, zips, conv, pc, steps, handed, runs, lastOp>>

----------------------------------------------------------------------------
(* Python str operations *)

None == <<>>

RECURSIVE find(_, _, _)
\* s.find(sub) searched from position i (1-based); 0 when sub does not occur
find(s, sub, i) ==
    IF i + Len(sub) - 1 > Len(s) THEN 0
    ELSE IF SubSeq(s, i, i + Len(sub) - 1) = sub THEN i
    ELSE find(s, sub, i + 1)

\* s.replace(old, new, 1): the first occurrence only
replace1(s, old, new) ==
    LET i == find(s, old, 1)
    IN  IF i = 0 THEN s
        ELSE SubSeq(s, 1, i - 1) \o new \o SubSeq(s, i + Len(old), Len(s))

\* s.rfind(ch) for a single character; 0 when absent
rfind(s, ch) ==
    LET I == {i \in 1..Len(s) : s[i] = ch}
    IN  IF I = {} THEN 0 ELSE CHOOSE i \in I : \A j \in I : j <= i

\* s.split(ch)[-1]
split_last(s, ch) == SubSeq(s, rfind(s, ch) + 1, Len(s))

\* s.split(ch)[0]
split_first(s, ch) ==
    LET i == find(s, <<ch>>, 1)
    IN  IF i = 0 THEN s ELSE SubSeq(s, 1, i - 1)

RECURSIVE split(_, _)
\* s.split(ch): the list of components
split(s, ch) ==
    LET i == find(s, <<ch>>, 1)
    IN  IF i = 0 THEN <<s>>
        ELSE <<SubSeq(s, 1, i - 1)>> \o split(SubSeq(s, i + 1, Len(s)), ch)

RECURSIVE join(_, _)
\* ch.join(parts)
join(parts, ch) ==
    IF parts = <<>> THEN <<>>
    ELSE IF Len(parts) = 1 THEN parts[1]
    ELSE parts[1] \o <<ch>> \o join(Tail(parts), ch)

RECURSIVE rstrip(_, _)
rstrip(s, ch) ==
    IF s # <<>> /\ s[Len(s)] = ch THEN rstrip(SubSeq(s, 1, Len(s) - 1), ch) ELSE s

RECURSIVE lstrip(_, _)
lstrip(s, ch) ==
    IF s # <<>> /\ s[1] = ch THEN lstrip(Tail(s), ch) ELSE s

startswith(s, p) == Len(s) >= Len(p) /\ SubSeq(s, 1, Len(p)) = p

----------------------------------------------------------------------------
(* posixpath *)

sep == "/"

\* os.path.split: (head, tail), tail holds no slash, head loses its trailing
\* slashes unless it is made of slashes only
os_path_split(p) ==
    LET i    == rfind(p, sep)
        head == SubSeq(p, 1, i)
        tail == SubSeq(p, i + 1, Len(p))
    IN  <<IF head # <<>> /\ (\E k \in 1..Len(head) : head[k] # sep)
             THEN rstrip(head, sep) ELSE head,
          tail>>

\* os.path.join(a, b)
os_path_join(a, b) ==
    IF startswith(b, <<sep>>) THEN b
    ELSE IF a = <<>> \/ a[Len(a)] = sep THEN a \o b
    ELSE a \o <<sep>> \o b

RECURSIVE norm_comps(_, _, _)
\* the loop of posixpath.normpath over the components
norm_comps(comps, acc, rooted) ==
    IF comps = <<>> THEN acc
    ELSE LET c == Head(comps)
         IN  IF c = <<>> \/ c = <<".">> THEN norm_comps(Tail(comps), acc, rooted)
             ELSE IF c # <<".", ".">>
                     \/ (~rooted /\ acc = <<>>)
                     \/ (acc # <<>> /\ acc[Len(acc)] = <<".", ".">>)
                  THEN norm_comps(Tail(comps), Append(acc, c), rooted)
             ELSE IF acc # <<>>
                  THEN norm_comps(Tail(comps), SubSeq(acc, 1, Len(acc) - 1), rooted)
             ELSE norm_comps(Tail(comps), acc, rooted)

\* os.path.normpath
normpath(p) ==
    IF p = <<>> THEN <<".">>
    ELSE LET rooted == startswith(p, <<sep>>)
             two    == startswith(p, <<sep, sep>>) /\ ~startswith(p, <<sep, sep, sep>>)
             body   == join(norm_comps(split(p, sep), <<>>, rooted), sep)
             path   == (IF two THEN <<sep, sep>> ELSE IF rooted THEN <<sep>> ELSE <<>>) \o body
         IN  IF path = <<>> THEN <<".">> ELSE path

\* os.path.normcase on POSIX
normcase(p) == p

----------------------------------------------------------------------------
(* the filesystem *)

exists(p) == p \in dirs \/ p \in DOMAIN files \/ p \in DOMAIN zips

isdir(p) == p \in dirs

isfile(p) == p \in DOMAIN files \/ p \in DOMAIN zips

\* p lies below directory d
under(p, d) == Len(p) > Len(d) + 1 /\ startswith(p, d \o <<sep>>)

\* the directories above p, the root excluded
ancestors(p) ==
    {SubSeq(p, 1, i - 1) : i \in {k \in 2..Len(p) : p[k] = sep}}

\* a function without the arguments in S
without(f, S) == [x \in DOMAIN f \ S |-> f[x]]

\* f with g's pairs added, g winning
overlay(f, g) == [x \in DOMAIN f \cup DOMAIN g |-> IF x \in DOMAIN g THEN g[x] ELSE f[x]]

\* what a call returns: the exception it raised ("" for none), the filesystem
\* it leaves, and the paths it touched
Outcome(exc, d, f, z, io) == [exc |-> exc, dirs |-> d, files |-> f, zips |-> z, io |-> io]

Access(kind, path) == [kind |-> kind, path |-> path]

----------------------------------------------------------------------------
(* file contents: a sequence of tokens, <<kind, value>> records *)

Text(v) == [k |-> "text", v |-> v]      \* literal text
Var(n)  == [k |-> "var", v |-> n]       \* a placeholder, {{ n }}
Newline == [k |-> "nl", v |-> "\n"]      \* a line break
Bad     == [k |-> "bad", v |-> "{%"]     \* an unclosed block tag
Raw(v)  == [k |-> "raw", v |-> v]       \* bytes that are not UTF-8

----------------------------------------------------------------------------
(* zipfile *)

member_is_dir(n) == n # <<>> /\ n[Len(n)] = sep

file_members(archive) == {n \in DOMAIN archive : ~member_is_dir(n)}

\* ZipFile.write(filename, arcname): the name the entry gets
zip_arcname(arcname) == lstrip(normpath(arcname), sep)

\* ZipFile._extract_member: where member n of an archive lands below dest
extract_target(dest, n) ==
    LET comps == SelectSeq(split(n, sep),
                           LAMBDA x : x # <<>> /\ x # <<".">> /\ x # <<".", ".">>)
    IN  normpath(os_path_join(dest, join(comps, sep)))

\* extractall can write every member: no regular file is in the way of a
\* directory, no directory in the way of a file
extract_ok(archive, dest) ==
    /\ ~isfile(dest)
    /\ \A n \in DOMAIN archive :
          LET t == extract_target(dest, n)
          IN  /\ \A a \in ancestors(t) : ~isfile(a)
              /\ IF member_is_dir(n) THEN ~isfile(t) ELSE ~isdir(t)

\* the regular files extractall(dest) writes
extract_files(archive, dest) ==
    LET T == {extract_target(dest, n) : n \in file_members(archive)}
    IN  [t \in T |-> archive[CHOOSE n \in file_members(archive) : extract_target(dest, n) = t]]

\* the directories extractall(dest) makes
extract_dirs(archive, dest) ==
    UNION {ancestors(extract_target(dest, n)) : n \in DOMAIN archive}
        \cup {extract_target(dest, n) : n \in {m \in DOMAIN archive : member_is_dir(m)}}

\* zipfile.ZipFile(path, mode): the entries the opened archive starts with
ZipFile_open(path, mode) ==
    IF mode = "a" /\ path \in DOMAIN zips THEN zips[path] ELSE <<>>

----------------------------------------------------------------------------
(* Converter.__init__ and set_lang *)

default_tmp_dir == <<"/", "t", "m", "p", "/", "I", "N", "K", "P", "Y">>

default_lang == <<"p", "l">>

\* dict.get(key, default)
dict_get(d, key, default) == IF key \in DOMAIN d THEN d[key] ELSE default

\* the attributes of a dict object are its methods; its keys are not attributes
dict_attributes == {"get", "keys", "values", "items", "update", "pop", "setdefault", "copy", "clear"}

\* getattr(obj, name, default) on a dict
getattr(obj, name, default) ==
    IF name \in dict_attributes THEN <<"<built-in method>">> ELSE default

\* Converter.set_lang: the value self.lang_code gets
set_lang(lang_code) ==
    IF lang_code = None
    THEN split_first(getattr(settings, "LANGUAGE_CODE", default_lang), "-")
    ELSE lang_code

\* the exception __init__ raises with the source existing as checked, as the
\* code orders its two checks: swapped, the identifier check comes first
init_exception_id_first(source_exists, data) ==
    IF dict_get(data, "id", None) = None THEN "IdDoesNotExist"
    ELSE IF ~source_exists THEN "FileDoesNotExist"
    ELSE ""

\* the same without the identifier check
init_exception_no_id_check(source_exists, data) ==
    IF ~source_exists THEN "FileDoesNotExist" ELSE ""

\* the exception __init__ raises ("" for none)
init_exception(source_exists, data) ==
    IF ~source_exists THEN "FileDoesNotExist"
    ELSE IF dict_get(data, "id", None) = None THEN "IdDoesNotExist"
    ELSE ""

\* the object __init__ builds
init_object(source_file, output_path, data, lang_code) ==
    LET output_path_without_ext == SubSeq(source_file, 1, Len(source_file) - 3)
        tmp_dir_master == dict_get(settings, "tmp_dir", default_tmp_dir)
        id             == dict_get(data, "id", None)
        output_odt_path == output_path_without_ext \o <<"o", "d", "t">>
        tmp_odt        == tmp_dir_master \o <<sep>> \o split_last(output_odt_path, sep)
    IN  [source_file    |-> source_file,
         output_path    |-> output_path,
         data           |-> data,
         tmp_dir_master |-> tmp_dir_master,
         tmp_dir        |-> tmp_dir_master \o <<sep>> \o id,
         tmp_odt        |-> tmp_odt,
         lang_code      |-> set_lang(lang_code),
         backend        |-> [output_path |-> output_path, input_path |-> tmp_odt]]

\* a slot that holds no Converter
NoConverter ==
    [source_file |-> <<>>, output_path |-> <<>>, data |-> <<>>, tmp_dir_master |-> <<>>,
     tmp_dir |-> <<>>, tmp_odt |-> <<>>, lang_code |-> <<>>,
     backend |-> [output_path |-> <<>>, input_path |-> <<>>]]

NotHanded == [invoked |-> FALSE, input_path |-> <<>>, output_path |-> <<>>,
              found |-> FALSE, archive |-> <<>>]

----------------------------------------------------------------------------
(* the steps of the pipeline, each an Outcome over the current filesystem *)

\* Converter.unzip_odt
unzip_odt(o) ==
    LET make  == ~exists(o.tmp_dir)
        made  == IF make THEN dirs \cup ancestors(o.tmp_dir) \cup {o.tmp_dir} ELSE dirs
        io    == {Access("stat", o.tmp_dir), Access("read", o.source_file)}
                    \cup (IF make THEN {Access("mkdir", o.tmp_dir)} ELSE {})
    IN  IF make /\ \E a \in ancestors(o.tmp_dir) : isfile(a)
        THEN Outcome("OSError", dirs, files, zips, {Access("stat", o.tmp_dir)})
        ELSE IF o.source_file \notin DOMAIN zips
        THEN Outcome(IF o.source_file \in DOMAIN files THEN "BadZipfile" ELSE "IOError",
                     made, files, zips, io)
        ELSE IF ~extract_ok(zips[o.source_file], o.tmp_dir)
        THEN Outcome("IOError", made, files, zips, io)
        ELSE LET new == extract_files(zips[o.source_file], o.tmp_dir)
             IN  Outcome("", made \cup extract_dirs(zips[o.source_file], o.tmp_dir),
                         overlay(files, new), without(zips, DOMAIN new),
                         io \cup {Access("write", o.tmp_dir)})

\* Converter._jinja_renderer: [exc, text]
jinja_renderer(file_content, data) ==
    LET n      == Len(file_content)
        \* jinja drops one trailing line break (keep_trailing_newline is off)
        body   == IF n > 0 /\ file_content[n].k = "nl"
                  THEN SubSeq(file_content, 1, n - 1) ELSE file_content
        \* an undefined name renders as the empty string
        filled == [i \in 1..Len(body) |->
                      IF body[i].k = "var"
                      THEN Text(dict_get(data, body[i].v, ""))
                      ELSE body[i]]
    IN  IF \E i \in 1..n : file_content[i].k = "raw"
        THEN [exc |-> "UnicodeDecodeError", text |-> <<>>]
        ELSE IF \E i \in 1..n : file_content[i].k = "bad"
        THEN [exc |-> "TemplateSyntaxError", text |-> <<>>]
        ELSE [exc |-> "", text |-> SelectSeq(filled, LAMBDA t : t.v # "")]

\* the nested _render(file_name) of Converter.render over the files fs: [exc, files]
render_file(file_name, fs, data) ==
    IF file_name \notin DOMAIN fs THEN [exc |-> "IOError", files |-> fs]
    ELSE LET r == jinja_renderer(fs[file_name], data)
         IN  IF r.exc # "" THEN [exc |-> r.exc, files |-> fs]
             ELSE [exc |-> "", files |-> [fs EXCEPT ![file_name] = r.text]]

\* Converter.render
render(o) ==
    LET content_xml == o.tmp_dir \o <<"/", "c", "o", "n", "t", "e", "n", "t", ".", "x", "m", "l">>
        styles_xml  == o.tmp_dir \o <<"/", "s", "t", "y", "l", "e", "s", ".", "x", "m", "l">>
        first       == render_file(content_xml, files, o.data)
        second      == render_file(styles_xml, first.files, o.data)
        io          == {Access("read", o.tmp_dir), Access("write", o.tmp_dir)}
    IN  IF first.exc # "" THEN Outcome(first.exc, dirs, files, zips, {Access("read", o.tmp_dir)})
        ELSE Outcome(second.exc, dirs, second.files, zips, io)

\* trim_path of zip_dir with the second replace left out
trim_path_keep_dir(path, parentDir, dirToZip) ==
    normcase(replace1(path, parentDir, <<>>))

\* the nested trim_path(path) of Converter.zip_dir
trim_path(path, parentDir, dirToZip) ==
    LET archive_path == replace1(path, parentDir, <<>>)
    IN  normcase(IF parentDir # <<>>
                 THEN replace1(archive_path, dirToZip \o <<sep>>, <<>>)
                 ELSE archive_path)

\* the bytes of the regular file at p
file_bytes(p) == IF p \in DOMAIN files THEN files[p] ELSE <<Raw("zip")>>

\* the entries zip_dir writes for dir_path
zip_entries(dir_path) ==
    LET parentDir == os_path_split(dir_path)[1]
        dirToZip  == os_path_split(dir_path)[2]
        walked    == {dir_path} \cup {d \in dirs : under(d, dir_path)}
        found     == {p \in DOMAIN files \cup DOMAIN zips : under(p, dir_path)}
        empty     == {d \in walked : ~\E q \in found \cup dirs : under(q, d)}
        written   == {<<zip_arcname(trim_path(p, parentDir, dirToZip)), file_bytes(p)>> : p \in found}
                        \cup {<<trim_path(d, parentDir, dirToZip) \o <<sep>>, <<>>>> : d \in empty}
    IN  [n \in {e[1] : e \in written} |-> (CHOOSE e \in written : e[1] = n)[2]]

\* Converter.zip_dir
zip_dir(dir_path, zip_file_path) ==
    LET path == IF zip_file_path = None THEN dir_path \o <<".", "z", "i", "p">> ELSE zip_file_path
    IN  IF ~isdir(dir_path)
        THEN Outcome("OSError", dirs, files, zips, {Access("stat", dir_path)})
        ELSE IF isdir(path) \/ ~isdir(os_path_split(path)[1])
        THEN Outcome("IOError", dirs, files, zips, {Access("stat", dir_path), Access("stat", path)})
        ELSE Outcome("", dirs, without(files, {path}),
                     overlay(zips, [p \in {path} |->
                                      overlay(ZipFile_open(path, "w"), zip_entries(dir_path))]),
                     {Access("read", dir_path), Access("write", path)})

\* Converter.zip_odt
zip_odt(o) == zip_dir(o.tmp_dir, o.tmp_odt)

\* the conversion backend's render(): ok is the external converter's result
backend_render(b, ok) ==
    IF b.input_path \notin DOMAIN zips \/ ~ok
    THEN Outcome("ConversionError", dirs, files, zips, {Access("read", b.input_path)})
    ELSE Outcome("", dirs,
                 overlay(files, [p \in {b.output_path} |-> <<Raw("pdf")>>]),
                 without(zips, {b.output_path}),
                 {Access("read", b.input_path), Access("write", b.output_path)})

\* Converter.to_pdf
to_pdf(o, ok) == backend_render(o.backend, ok)

\* remove_tmp leaving the translated odt file behind
remove_tmp_keep_odt(o) ==
    IF ~isdir(o.tmp_dir)
    THEN Outcome("OSError", dirs, files, zips, {Access("delete", o.tmp_dir)})
    ELSE Outcome("", {d \in dirs : d # o.tmp_dir /\ ~under(d, o.tmp_dir)},
                 without(files, {p \in DOMAIN files : under(p, o.tmp_dir)}),
                 without(zips, {p \in DOMAIN zips : under(p, o.tmp_dir)}),
                 {Access("delete", o.tmp_dir)})

\* Converter.remove_tmp
remove_tmp(o) ==
    LET d1 == {d \in dirs : d # o.tmp_dir /\ ~under(d, o.tmp_dir)}
        f1 == without(files, {p \in DOMAIN files : under(p, o.tmp_dir)})
        z1 == without(zips, {p \in DOMAIN zips : under(p, o.tmp_dir)})
        io == {Access("delete", o.tmp_dir), Access("delete", o.tmp_odt)}
    IN  IF ~isdir(o.tmp_dir)
        THEN Outcome("OSError", dirs, files, zips, {Access("delete", o.tmp_dir)})
        ELSE IF o.tmp_odt \notin DOMAIN f1 \cup DOMAIN z1
        THEN Outcome("OSError", d1, f1, z1, io)
        ELSE Outcome("", d1, without(f1, {o.tmp_odt}), without(z1, {o.tmp_odt}), io)

----------------------------------------------------------------------------
(* Converter._convert: the order of the steps *)

convert_flow == <<"unzip_odt", "render", "zip_odt", "to_pdf", "remove_tmp">>

\* where control is after step of flow returned (ok) or raised
after_step_in(flow, step, ok) ==
    LET i == CHOOSE k \in 1..Len(flow) : flow[k] = step
    IN  IF ~ok THEN "raised"
        ELSE IF i = Len(flow) THEN "done"
        ELSE flow[i + 1]

\* _convert with the cleanup in a finally clause
after_step_finally(step, ok) ==
    IF ~ok /\ step # "remove_tmp" THEN "remove_tmp"
    ELSE after_step_in(convert_flow, step, ok)

\* _convert converting before it zips
after_step_pdf_first(step, ok) ==
    after_step_in(<<"unzip_odt", "render", "to_pdf", "zip_odt", "remove_tmp">>, step, ok)

\* where control is after step of _convert returned (ok) or raised
after_step(step, ok) == after_step_in(convert_flow, step, ok)

----------------------------------------------------------------------------
(* the documents, the requests and the initial filesystem *)

Converters == {1, 2}

MaxRuns == 3

content_xml_name == <<"c", "o", "n", "t", "e", "n", "t", ".", "x", "m", "l">>
styles_xml_name  == <<"s", "t", "y", "l", "e", "s", ".", "x", "m", "l">>
picture_name     == <<"i", "m", "g", "/", "p", ".", "p", "n", "g">>
empty_dir_name   == <<"c", "f", "g", "/">>

\* a letter with a picture and an empty directory
ArchiveA ==
    [n \in {content_xml_name, styles_xml_name, picture_name, empty_dir_name} |->
        IF n = content_xml_name THEN <<Text("Hello "), Var("name"), Newline>>
        ELSE IF n = styles_xml_name THEN <<Text("style")>>
        ELSE IF n = picture_name THEN <<Raw("png")>>
        ELSE <<>>]

\* a letter of two members
ArchiveB ==
    [n \in {content_xml_name, styles_xml_name} |->
        IF n = content_xml_name THEN <<Text("Dear "), Var("name")>>
        ELSE <<Text("plain")>>]

\* a letter whose styles.xml is no valid template
ArchiveC ==
    [n \in {content_xml_name, styles_xml_name} |->
        IF n = content_xml_name THEN <<Text("Hi "), Var("name")>>
        ELSE <<Text("style"), Bad>>]

SourceA   == <<"/", "d", "/", "a", ".", "o", "d", "t">>
SourceB   == <<"/", "d", "/", "b", ".", "o", "d", "t">>
SourceC   == <<"/", "d", "/", "c", ".", "o", "d", "t">>
SourceN   == <<"/", "d", "/", "n", ".", "o", "d", "t">>   \* a file that is no zip
SourceX   == <<"/", "d", "/", "x", ".", "o", "d", "t">>   \* no such file
OutputPdf == <<"/", "d", "/", "o", ".", "p", "d", "f">>

InitDirs  == {<<"/", "d">>}
InitFiles == [p \in {SourceN} |-> <<Text("not a zip")>>]
InitZips  == [p \in {SourceA, SourceB, SourceC} |->
                 IF p = SourceA THEN ArchiveA ELSE IF p = SourceB THEN ArchiveB ELSE ArchiveC]

Data1     == [id |-> <<"1">>, name |-> "World"]
Data2     == [id |-> <<"2">>]
DataOdt   == [id |-> <<"a", ".", "o", "d", "t">>, name |-> "World"]
DataNoId  == [name |-> "World"]
DataEmpty == [id |-> <<>>, name |-> "World"]

Idle(c) == pc[c] \in {"none", "ready", "done", "raised"}

Init ==
    /\ settings = <<>>
    /\ dirs = InitDirs
    /\ files = InitFiles
    /\ zips = InitZips
    /\ conv = [c \in Converters |-> NoConverter]
    /\ pc = [c \in Converters |-> "none"]
    /\ steps = [c \in Converters |-> <<>>]
    /\ handed = [c \in Converters |-> NotHanded]
    /\ runs = 0
    /\ lastOp = [op |-> "start", c |-> 0, exc |-> "", io |-> {}, args |-> <<>>]

----------------------------------------------------------------------------
(* the calls *)

Called(op, c, exc, io, args) ==
    lastOp' = [op |-> op, c |-> c, exc |-> exc, io |-> io, args |-> args]

\* settings[key] = value
Configure(key, value) ==
    /\ \A c \in Converters : Idle(c)
    /\ settings' = overlay(settings, [k \in {key} |-> value])
    /\ Called("configure", 0, "", {}, <<key, value>>)
    /\ UNCHANGED <<dirs, files, zips, conv, pc, steps, handed, runs>>

\* slot c = Converter(source_file, output_path, data, lang_code=lang_code)
Construct(c, source_file, output_path, data, lang_code) ==
    LET exc == init_exception(exists(source_file), data)
    IN  /\ pc[c] = "none"
        /\ \A d \in Converters : d < c => pc[d] # "none"
        /\ Called("init", c, exc, {Access("stat", source_file)},
                  [source_file |-> source_file, data |-> data, lang_code |-> lang_code])
        /\ IF exc = ""
           THEN /\ conv' = [conv EXCEPT ![c] = init_object(source_file, output_path, data, lang_code)]
                /\ pc' = [pc EXCEPT ![c] = "ready"]
                /\ steps' = [steps EXCEPT ![c] = <<>>]
                /\ handed' = [handed EXCEPT ![c] = NotHanded]
           ELSE UNCHANGED <<conv, pc, steps, handed>>
        /\ UNCHANGED <<settings, dirs, files, zips, runs>>

\* slot c's convert() is called
Convert(c) ==
    /\ pc[c] \in {"ready", "done", "raised"}
    /\ runs < MaxRuns
    /\ runs' = runs + 1
    /\ pc' = [pc EXCEPT ![c] = convert_flow[1]]
    /\ steps' = [steps EXCEPT ![c] = <<>>]
    /\ handed' = [handed EXCEPT ![c] = NotHanded]
    /\ Called("convert", c, "", {}, <<>>)
    /\ UNCHANGED <<settings, dirs, files, zips, conv>>

\* a step of slot c's pipeline ran with outcome r
Stepped(c, step, r) ==
    /\ dirs' = r.dirs
    /\ files' = r.files
    /\ zips' = r.zips
    /\ steps' = [steps EXCEPT ![c] = Append(@, step)]
    /\ pc' = [pc EXCEPT ![c] = after_step(step, r.exc = "")]
    /\ Called(step, c, r.exc, r.io, <<>>)
    /\ UNCHANGED <<settings, conv, runs>>

UnzipOdt(c) ==
    /\ pc[c] = "unzip_odt"
    /\ \E r \in {unzip_odt(conv[c])} : Stepped(c, "unzip_odt", r)
    /\ UNCHANGED handed

Render(c) ==
    /\ pc[c] = "render"
    /\ \E r \in {render(conv[c])} : Stepped(c, "render", r)
    /\ UNCHANGED handed

ZipOdt(c) ==
    /\ pc[c] = "zip_odt"
    /\ \E r \in {zip_odt(conv[c])} : Stepped(c, "zip_odt", r)
    /\ UNCHANGED handed

ToPdf(c) ==
    /\ pc[c] = "to_pdf"
    /\ \E ok \in BOOLEAN : \E r \in {to_pdf(conv[c], ok)} : Stepped(c, "to_pdf", r)
    /\ handed' = [handed EXCEPT ![c] =
                     [invoked |-> TRUE,
                      input_path |-> conv[c].backend.input_path,
                      output_path |-> conv[c].backend.output_path,
                      found |-> conv[c].backend.input_path \in DOMAIN zips,
                      archive |-> IF conv[c].backend.input_path \in DOMAIN zips
                                  THEN zips[conv[c].backend.input_path] ELSE <<>>]]

RemoveTmp(c) ==
    /\ pc[c] = "remove_tmp"
    /\ \E r \in {remove_tmp(conv[c])} : Stepped(c, "remove_tmp", r)
    /\ UNCHANGED handed

----------------------------------------------------------------------------
(* one conversion at a time: a caller builds requests and converts them,   *)
(* each convert() returning or raising before the next call                *)

Alone(c) == \A d \in Converters \ {c} : Idle(d)

Sources == {SourceA, SourceB, SourceC, SourceN}

Datas == {Data1, Data2, DataOdt}

SeqConstruct ==
    \E c \in Converters, s \in Sources, d \in Datas :
        Alone(c) /\ Construct(c, s, OutputPdf, d, None)

SeqConvert == \E c \in Converters : Alone(c) /\ Convert(c)

SeqUnzipOdt == \E c \in Converters : Alone(c) /\ UnzipOdt(c)

SeqRender == \E c \in Converters : Alone(c) /\ Render(c)

SeqZipOdt == \E c \in Converters : Alone(c) /\ ZipOdt(c)

SeqToPdf == \E c \in Converters : Alone(c) /\ ToPdf(c)

SeqRemoveTmp == \E c \in Converters : Alone(c) /\ RemoveTmp(c)

Next ==
    \/ SeqConstruct
    \/ SeqConvert
    \/ SeqUnzipOdt
    \/ SeqRender
    \/ SeqZipOdt
    \/ SeqToPdf
    \/ SeqRemoveTmp

Spec == Init /\ [][Next]_vars

----------------------------------------------------------------------------
(* properties of one conversion at a time *)

IsPrefix(s, t) == Len(s) <= Len(t) /\ SubSeq(t, 1, Len(s)) = s

Range(s) == {s[i] : i \in 1..Len(s)}

\* slot c made the most recent call, and it was op
Last(c, op) == lastOp.c = c /\ lastOp.op = op

\* nothing is left at or below path p
Gone(p) ==
    /\ ~exists(p)
    /\ ~\E q \in dirs \cup DOMAIN files \cup DOMAIN zips : under(q, p)

\* C1: when convert() returns without raising, neither the working directory
\* (with all that was in it) nor the intermediate archive is on disk any more.
C1_TmpRemovedAfterSuccess ==
    \A c \in Converters :
        (pc[c] = "done" /\ lastOp.c = c) =>
            Gone(conv[c].tmp_dir) /\ Gone(conv[c].tmp_odt)

\* a convert() has just returned, having extracted, rendered, zipped and converted
C1_Witness ==
    \E c \in Converters :
        /\ pc[c] = "done" /\ Last(c, "remove_tmp")
        /\ steps[c] = convert_flow
        /\ handed[c].found

\* C2: when unzip_odt, render, zip_odt or to_pdf raises, the exception leaves
\* convert(): no later step runs, remove_tmp is not executed, and what the steps
\* already performed created (the working directory, the extracted members, the
\* repacked archive) is still on disk.
C2_FailureLeavesArtifacts ==
    \A c \in Converters :
        /\ (lastOp.c = c /\ lastOp.exc # ""
                /\ lastOp.op \in {"unzip_odt", "render", "zip_odt", "to_pdf"}) =>
              /\ pc[c] = "raised"
              /\ steps[c] # <<>> /\ steps[c][Len(steps[c])] = lastOp.op
              /\ IsPrefix(steps[c], convert_flow)
              /\ (Access("mkdir", conv[c].tmp_dir) \in lastOp.io => isdir(conv[c].tmp_dir))
              /\ (lastOp.op # "unzip_odt" =>
                    /\ isdir(conv[c].tmp_dir)
                    /\ \A n \in file_members(zips[conv[c].source_file]) :
                          extract_target(conv[c].tmp_dir, n) \in DOMAIN files)
              /\ (lastOp.op = "to_pdf" => conv[c].tmp_odt \in DOMAIN zips)
        /\ (pc[c] = "raised" /\ steps[c][Len(steps[c])] # "remove_tmp") =>
              "remove_tmp" \notin Range(steps[c])

\* to_pdf has just raised, with the working directory and the archive on disk
C2_Witness ==
    \E c \in Converters :
        /\ Last(c, "to_pdf") /\ lastOp.exc = "ConversionError"
        /\ pc[c] = "raised"
        /\ isdir(conv[c].tmp_dir) /\ conv[c].tmp_odt \in DOMAIN zips

\* C5: a run of convert() performs extract, render, repack, convert, clean up
\* in this order, each at most once; the backend's render() is invoked with
\* input_path tmp_odt and the caller's output_path, after the repacked archive
\* was completely written (it holds the working directory's entries) and before
\* it is deleted.
C5_StepOrderAndBackendArguments ==
    \A c \in Converters :
        /\ IsPrefix(steps[c], convert_flow)
        /\ handed[c].invoked =>
              /\ handed[c].input_path = conv[c].tmp_odt
              /\ handed[c].output_path = conv[c].output_path
              /\ handed[c].found
              /\ "remove_tmp" \in Range(steps[c]) => steps[c] = convert_flow
        /\ Last(c, "to_pdf") =>
              /\ handed[c].invoked
              /\ conv[c].tmp_odt \in DOMAIN zips
              /\ zips[conv[c].tmp_odt] = handed[c].archive
              /\ handed[c].archive = zip_entries(conv[c].tmp_dir)

\* the backend has just been invoked, and found the archive
C5_Witness ==
    \E c \in Converters :
        /\ Last(c, "to_pdf") /\ lastOp.exc = ""
        /\ handed[c].found
        /\ picture_name \in DOMAIN handed[c].archive

\* what the archive of a converted document holds: content.xml and styles.xml
\* rendered, every other file member as it is in the source archive
expected_members(o) ==
    LET src == zips[o.source_file]
    IN  [n \in file_members(src) |->
            IF n \in {content_xml_name, styles_xml_name}
            THEN jinja_renderer(src[n], o.data).text
            ELSE src[n]]

\* C10: the archive handed to the backend holds exactly the file members of
\* the current source archive (content.xml and styles.xml rendered, the others
\* unchanged), whatever earlier runs left on disk.
C10_NoLeftoverMembers ==
    \A c \in Converters :
        (Last(c, "to_pdf") /\ handed[c].found) =>
            /\ file_members(handed[c].archive) = file_members(zips[conv[c].source_file])
            /\ \A n \in file_members(handed[c].archive) :
                  handed[c].archive[n] = expected_members(conv[c])[n]

----------------------------------------------------------------------------
(* constructing requests: settings may be set between the constructions *)

LangCodes == {None, <<"e", "n">>}

CtorSources == {SourceA, SourceB, SourceX}

CtorDatas == {Data1, Data2, DataNoId, DataEmpty}

CtorConfigure ==
    \E kv \in {<<"tmp_dir", <<"/", "w">>>>,
               <<"LANGUAGE_CODE", <<"e", "n", "-", "u", "s">>>>} :
        Configure(kv[1], kv[2])

CtorConstruct ==
    \E c \in Converters, s \in CtorSources, d \in CtorDatas, l \in LangCodes :
        Construct(c, s, OutputPdf, d, l)

NextCtor == CtorConfigure \/ CtorConstruct

SpecCtor == Init /\ [][NextCtor]_vars

\* the filesystem is as it was at the start
FilesystemUntouched == dirs = InitDirs /\ files = InitFiles /\ zips = InitZips

\* the most recent call was a construction given data without a usable "id"
InitWithoutId == lastOp.op = "init" /\ dict_get(lastOp.args.data, "id", None) = None

\* C3 as claimed: constructing with data that has no "id" (or an empty one)
\* fails with IdDoesNotExist whether the source path exists or not, before any
\* filesystem access is made.
C3_IdCheckedBeforeAnyAccess ==
    InitWithoutId => lastOp.exc = "IdDoesNotExist" /\ lastOp.io = {}

\* C3 as the code has it: when the source path exists, constructing with data
\* that has no "id" (or an empty one) fails with IdDoesNotExist; the one
\* filesystem access made before that is the existence check of the source
\* path, nothing is created and the slot holds no Converter.
C3_MissingIdRaises ==
    (InitWithoutId /\ exists(lastOp.args.source_file)) =>
        /\ lastOp.exc = "IdDoesNotExist"
        /\ lastOp.io = {Access("stat", lastOp.args.source_file)}
        /\ FilesystemUntouched
        /\ pc[lastOp.c] = "none" /\ conv[lastOp.c] = NoConverter

\* a construction from an existing source with an empty "id" has just failed
C3_Witness ==
    /\ InitWithoutId
    /\ lastOp.args.data = DataEmpty
    /\ lastOp.args.source_file = SourceA
    /\ lastOp.exc = "IdDoesNotExist"

\* C4: constructing with a source path that does not exist fails with
\* FileDoesNotExist whatever the data holds; the slot holds no Converter on
\* which extraction could be started and nothing is created on disk.
C4_MissingSourceRaises ==
    (lastOp.op = "init" /\ ~exists(lastOp.args.source_file)) =>
        /\ lastOp.exc = "FileDoesNotExist"
        /\ pc[lastOp.c] = "none" /\ conv[lastOp.c] = NoConverter
        /\ FilesystemUntouched

\* a construction from a missing source has just failed, the data having no "id"
C4_Witness ==
    /\ lastOp.op = "init"
    /\ lastOp.args.source_file = SourceX
    /\ lastOp.args.data = DataNoId
    /\ lastOp.exc = "FileDoesNotExist"

\* the language code the claim describes: the explicit argument, else the one
\* in settings, else "pl"
claimed_lang(lang_code) ==
    IF lang_code # None THEN lang_code
    ELSE IF "LANGUAGE_CODE" \in DOMAIN settings
    THEN split_first(settings["LANGUAGE_CODE"], "-")
    ELSE default_lang

\* C8: the language code of a constructed Converter is a two-letter code: the
\* explicit lang_code argument if given, otherwise the language code set in
\* settings, otherwise "pl".
C8_LanguageCodePriority ==
    (lastOp.op = "init" /\ lastOp.exc = "") =>
        /\ conv[lastOp.c].lang_code = claimed_lang(lastOp.args.lang_code)
        /\ Len(conv[lastOp.c].lang_code) = 2

----------------------------------------------------------------------------
(* two conversions at once: the steps of the two pipelines interleave *)

PairSources == {SourceA, SourceB}

PairDatas == {Data1, Data2}

PairConstruct ==
    \E c \in Converters, s \in PairSources, d \in PairDatas :
        Construct(c, s, OutputPdf, d, None)

PairConvert == \E c \in Converters : Convert(c)

PairUnzipOdt == \E c \in Converters : UnzipOdt(c)

PairRender == \E c \in Converters : Render(c)

PairZipOdt == \E c \in Converters : ZipOdt(c)

PairToPdf == \E c \in Converters : ToPdf(c)

PairRemoveTmp == \E c \in Converters : RemoveTmp(c)

NextPair ==
    \/ PairConstruct
    \/ PairConvert
    \/ PairUnzipOdt
    \/ PairRender
    \/ PairZipOdt
    \/ PairToPdf
    \/ PairRemoveTmp

SpecPair == Init /\ [][NextPair]_vars

\* the temporary paths of a Converter
tmp_paths(o) == {o.tmp_dir, o.tmp_odt}

\* C9: two requests with the same temp root and different ids have disjoint
\* temporary paths, and no step of one pipeline writes, reads or deletes a
\* temporary path of the other.
C9_DistinctIdsDoNotInterfere ==
    \A c, d \in Converters :
        (c # d /\ pc[c] # "none" /\ pc[d] # "none"
             /\ conv[c].tmp_dir_master = conv[d].tmp_dir_master
             /\ conv[c].data.id # conv[d].data.id) =>
            /\ tmp_paths(conv[c]) \cap tmp_paths(conv[d]) = {}
            /\ lastOp.c = c =>
                  \A a \in lastOp.io : a.path \notin tmp_paths(conv[d])

----------------------------------------------------------------------------
(* the repacker used directly: unzip_odt and zip_dir called on constructed  *)
(* Converters, convert() never                                             *)

MaxCalls == 4

RepackPath == <<"/", "d", "/", "r", ".", "z", "i", "p">>

\* the path zip_dir writes
zip_target(dir_path, zip_file_path) ==
    IF zip_file_path = None THEN dir_path \o <<".", "z", "i", "p">> ELSE zip_file_path

\* slot c's unzip_odt() is called
CallUnzipOdt(c) ==
    /\ pc[c] = "ready"
    /\ runs < MaxCalls
    /\ runs' = runs + 1
    /\ \E r \in {unzip_odt(conv[c])} :
          /\ dirs' = r.dirs /\ files' = r.files /\ zips' = r.zips
          /\ Called("unzip_odt", c, r.exc, r.io, <<>>)
    /\ UNCHANGED <<settings, conv, pc, steps, handed>>

\* slot c's zip_dir(dir_path, zip_file_path) is called
CallZipDir(c, dir_path, zip_file_path) ==
    /\ pc[c] = "ready"
    /\ runs < MaxCalls
    /\ runs' = runs + 1
    /\ \E r \in {zip_dir(dir_path, zip_file_path)} :
          /\ dirs' = r.dirs /\ files' = r.files /\ zips' = r.zips
          /\ Called("zip_dir", c, r.exc, r.io,
                    [dir_path |-> dir_path, zip_file_path |-> zip_file_path])
    /\ UNCHANGED <<settings, conv, pc, steps, handed>>

RepackConstruct ==
    \E c \in Converters, s \in {SourceA, SourceB}, d \in {Data1, Data2} :
        Construct(c, s, OutputPdf, d, None)

RepackUnzipOdt == \E c \in Converters : CallUnzipOdt(c)

RepackZipDir ==
    \E c \in Converters, z \in {RepackPath, None} :
        CallZipDir(c, conv[c].tmp_dir, z)

NextRepack == RepackConstruct \/ RepackUnzipOdt \/ RepackZipDir

SpecRepack == Init /\ [][NextRepack]_vars

\* the regular files below directory d, by their path relative to d
held(d) ==
    [n \in {SubSeq(p, Len(d) + 2, Len(p)) : p \in {q \in DOMAIN files : under(q, d)}} |->
        files[d \o <<sep>> \o n]]

\* the file members of an archive
members_of(archive) == [n \in file_members(archive) |-> archive[n]]

\* a directory to extract into that holds nothing
CheckDir == <<"/", "d", "/", "c", "h", "e", "c", "k">>

C7_ExistingEntriesKept ==
    [][\A p \in DOMAIN zips :
          (/\ lastOp'.op = "zip_dir" /\ lastOp'.exc = ""
           /\ lastOp' # lastOp
           /\ p = zip_target(lastOp'.args.dir_path, lastOp'.args.zip_file_path)) =>
              /\ p \in DOMAIN zips'
              /\ DOMAIN zips[p] \subseteq DOMAIN zips'[p]]_vars

====
